---- MODULE Spec2Model ----
(***************************************************************************)
(* memtrace.dll (src/src/memtrace/MemTraceDll.cpp): the wire codec         *)
(* (SerNum16/32/64, SerializeType), the pipe (TryOpenPipe, WriteToPipe,    *)
(* ClosePipe), the heap hooks (RtlAllocateHeapHook, RtlFreeHeapHook) and   *)
(* the DllMain lifecycle.                                                  *)
(*                                                                         *)
(* Also mupdf's stream module (src/mupdf/source/fitz/stream-open.c):       *)
(* fz_new_stream, fz_keep_stream, fz_close, fz_open_fd, fz_open_buffer.    *)
(*                                                                         *)
(* Five specifications share the variables:                                *)
(*   SpecWire   one call of SerializeType on inputs drawn by WireInit      *)
(*   SpecReuse  repeated calls of SerializeType on one reused Vec<byte>    *)
(*   Spec       DllMain, the loader's steps and the threads' heap calls    *)
(*   SpecPipe   TryOpenPipe, WriteToPipe and ClosePipe called in any order *)
(*   SpecStream a stream opened, kept and closed by its owners             *)
(***************************************************************************)
EXTENDS Integers, Sequences, FiniteSets, TLC

VARIABLES
    rec,        \* the struct being serialized, as the caller fills it in
    data,       \* SerializeType's argument: the bytes of that struct
    typeInfo,   \* SerializeType's argument: [msgId, members]
    msg,        \* the Vec<byte> the caller passes to SerializeType
    prior,      \* what msg held when the last call of SerializeType started
    phase,      \* codec specifications: "init" before the first call, "done" after one
    kept        \* SpecReuse: an earlier call's inputs and output, once kept.has

codecVars == <<rec, data, typeInfo, msg, prior, phase, kept>>

VARIABLES
    gModule,                \* static HANDLE gModule
    gPipe,                  \* static HANDLE gPipe
    gRtlAllocateHeapOrig,   \* the pointer AddHook sets for RtlAllocateHeap
    gRtlFreeHeapOrig,       \* the pointer AddHook sets for RtlFreeHeap
    gNtdllIntercept,        \* [module: Init resolved ntdll.dll, hooked: the exports redirected]
    dll,                    \* the DllMain call in progress and the results of those that returned
                            \* (callsAtDetach: the heap calls begun before process detach returned)
    os,                     \* the pipe as the system sees it: [open, opens, closes, writes]
    th,                     \* per thread: the heap call in progress or last completed
    calls                   \* heap calls made so far, over all threads

sysVars == <<gModule, gPipe, gRtlAllocateHeapOrig, gRtlFreeHeapOrig, gNtdllIntercept,
             dll, os, th, calls>>

VARIABLES
    pipeCalls,  \* SpecPipe: the calls of WriteToPipe and ClosePipe made so far, and the last WriteToPipe
    fz          \* SpecStream: the stream, its state object and the calls made on it

unitVars == <<pipeCalls, fz>>

vars == <<rec, data, typeInfo, msg, prior, phase, kept,
          gModule, gPipe, gRtlAllocateHeapOrig, gRtlFreeHeapOrig, gNtdllIntercept,
          dll, os, th, calls, pipeCalls, fz>>

None == "none"

\* nothing kept yet
NothingKept == [has |-> FALSE, rec |-> None, typeInfo |-> None, msg |-> << >>, between |-> FALSE]

-----------------------------------------------------------------------------
(* Bounds *)

\* most members (before the sentinel) of an enumerated schema
MaxMembers == 2

\* most heap calls the threads make in one run
MaxCalls == 3

-----------------------------------------------------------------------------
(* Numbers in memory.  memtrace.dll is a Windows DLL: an object's bytes are  *)
(* stored least significant byte first.                                      *)

\* the number of values of a uint16
UInt16Range == 65536

RECURSIVE Pow256(_)
Pow256(k) == IF k = 0 THEN 1 ELSE 256 * Pow256(k - 1)

\* the n bytes of the object holding the unsigned value v
ObjBytes(v, n) == [i \in 1..n |-> (v \div Pow256(i - 1)) % 256]

\* the unsigned value of the object whose bytes are b
RECURSIVE ObjValue(_)
ObjValue(b) == IF b = <<>> THEN 0 ELSE b[1] + 256 * ObjValue(Tail(b))

\* (uint16)v
CastU16(v) == v % UInt16Range

\* A 32-bit value (uint32, and SIZE_T, ULONG and PVOID of the 32-bit build the
\* code supports) is held as its two 16-bit halves: hi * 65536 + lo.
U32(hi, lo) == [hi |-> hi, lo |-> lo]

\* the 4 bytes of the object holding the uint32 w, and back
Obj32Bytes(w) == ObjBytes(w.lo, 2) \o ObjBytes(w.hi, 2)
Obj32Value(b) == U32(ObjValue(SubSeq(b, 3, 4)), ObjValue(SubSeq(b, 1, 2)))

-----------------------------------------------------------------------------
(* Record types and their serialization info *)

AllocDataMsgId == 1
FreeDataMsgId == 2

\* struct AllocData { uint32 size; uint32 addr; } as the bytes of the object
AllocData(size, addr) == Obj32Bytes(size) \o Obj32Bytes(addr)

\* struct FreeData { uint32 addr; }
FreeData(addr) == Obj32Bytes(addr)

\* (byte*)&d: the bytes of the struct d (a struct of another type is held
\* as its bytes)
RecordBytes(r) ==
    CASE r.kind = "AllocData" -> AllocData(r.size, r.addr)
      [] r.kind = "FreeData" -> FreeData(r.addr)
      [] r.kind = "raw" -> r.bytes

MemberTypes == {"UInt16", "Int32", "UInt32", "Int64", "UInt64"}

MemberSerializeInfo(type, offset) == [type |-> type, offset |-> offset]

SERIALIZEINFO_SENTINEL == MemberSerializeInfo("Sentinel", 0)

IsSentinel(member) == member.type = "Sentinel"

\* allocDataSerMemberInfo with the two offsets exchanged
allocDataSerMemberInfoSwapped ==
    << MemberSerializeInfo("UInt32", 4),
       MemberSerializeInfo("UInt32", 0),
       SERIALIZEINFO_SENTINEL >>

allocDataSerMemberInfo ==
    << MemberSerializeInfo("UInt32", 0),     \* offsetof(AllocData, size)
       MemberSerializeInfo("UInt32", 4),     \* offsetof(AllocData, addr)
       SERIALIZEINFO_SENTINEL >>

allocDataTypeInfo == [msgId |-> AllocDataMsgId, members |-> allocDataSerMemberInfo]

freeDataSerMemberInfo ==
    << MemberSerializeInfo("UInt32", 0),     \* offsetof(FreeData, addr)
       SERIALIZEINFO_SENTINEL >>

\* freeDataTypeInfo with AllocData's message id
freeDataTypeInfoAllocId == [msgId |-> AllocDataMsgId, members |-> freeDataSerMemberInfo]

freeDataTypeInfo == [msgId |-> FreeDataMsgId, members |-> freeDataSerMemberInfo]

-----------------------------------------------------------------------------
(* Vec<byte>: a growable byte buffer (Vec.h) *)

\* Vec::Reset: the buffer becomes empty
VecReset(vec) == << >>

\* Vec::AppendBlanks(count): count new elements at the end; the returned
\* pointer is the offset of the first of them
VecAppendBlanks(vec, count) == vec \o [i \in 1..count |-> 0]

\* *p++ = b for the bytes of src, from offset at (0-based) of vec on
VecStore(vec, at, src) ==
    SubSeq(vec, 1, at) \o src \o SubSeq(vec, at + Len(src) + 1, Len(vec))

-----------------------------------------------------------------------------
(* The encoders.  p is the source pointer: the object p.obj and the offset   *)
(* p.off into it.  Each returns the grown buffer and the int it returns.     *)

Ptr(obj, off) == [obj |-> obj, off |-> off]

\* *dataOut++ = *data++, n times
CopyBytes(p, n) == [i \in 1..n |-> p.obj[p.off + i]]

SerNum16(p, serOut) ==
    LET dataOut == Len(serOut)
        grown == VecAppendBlanks(serOut, 2)
    IN  [serOut |-> VecStore(grown, dataOut, CopyBytes(p, 2)), ret |-> 2]

\* SerNum32 copying only two of the four bytes
SerNum32Low16(p, serOut) ==
    LET dataOut == Len(serOut)
        grown == VecAppendBlanks(serOut, 4)
    IN  [serOut |-> VecStore(grown, dataOut, CopyBytes(p, 2)), ret |-> 4]

SerNum32(p, serOut) ==
    LET dataOut == Len(serOut)
        grown == VecAppendBlanks(serOut, 4)
    IN  [serOut |-> VecStore(grown, dataOut, CopyBytes(p, 4)), ret |-> 4]

SerNum64(p, serOut) ==
    LET dataOut == Len(serOut)
        grown == VecAppendBlanks(serOut, 8)
    IN  [serOut |-> VecStore(grown, dataOut, CopyBytes(p, 8)), ret |-> 8]

\* SerializeMember counting 8 bytes for a 64-bit member it encodes in 4
SerializeMemberCount8(dat, member, st) ==
    LET p == Ptr(dat, member.offset)
        r == CASE member.type = "UInt16" -> SerNum16(p, st.msg)
               [] member.type \in {"Int32", "UInt32"} -> SerNum32(p, st.msg)
               [] member.type \in {"Int64", "UInt64"} ->
                    [serOut |-> SerNum32(p, st.msg).serOut, ret |-> 8]
    IN  [msg |-> r.serOut, msgLen |-> st.msgLen + r.ret]

\* the switch of SerializeType's loop for one member: st is [msg, msgLen]
SerializeMember(dat, member, st) ==
    LET p == Ptr(dat, member.offset)
        r == CASE member.type = "UInt16" -> SerNum16(p, st.msg)
               [] member.type \in {"Int32", "UInt32"} -> SerNum32(p, st.msg)
               [] member.type \in {"Int64", "UInt64"} -> SerNum32(p, st.msg)
    IN  [msg |-> r.serOut, msgLen |-> st.msgLen + r.ret]

\* the number of members the loop visits: those before the first sentinel
MemberCount(members) ==
    (CHOOSE i \in 1..Len(members) :
        /\ IsSentinel(members[i])
        /\ \A j \in 1..(i - 1) : ~IsSentinel(members[j])) - 1

\* the for loop over members[lo..hi], in order; the range is walked by halves,
\* the first half finished (its msgLen read) before the second starts, so that
\* a schema of thousands of members evaluates in logarithmic depth
RECURSIVE SerializeMembers(_, _, _, _, _)
SerializeMembers(dat, members, lo, hi, st) ==
    IF lo > hi THEN st
    ELSE IF lo = hi THEN SerializeMember(dat, members[lo], st)
    ELSE LET mid == (lo + hi) \div 2
             first == SerializeMembers(dat, members, lo, mid, st)
         IN  IF first.msgLen >= st.msgLen
             THEN SerializeMembers(dat, members, mid + 1, hi, first)
             ELSE first

\* SerializeType without msg.Reset()
SerializeTypeNoReset(dat, ti, vec) ==
    LET msgLenPtr == Len(vec)
        blank == VecAppendBlanks(vec, 2)
        msgId == CastU16(ti.msgId)
        tag == SerNum16(Ptr(ObjBytes(msgId, 2), 0), blank)
        st0 == [msg |-> tag.serOut, msgLen |-> 2 + tag.ret]
        st == SerializeMembers(dat, ti.members, 1, MemberCount(ti.members), st0)
    IN  VecStore(st.msg, msgLenPtr, ObjBytes(CastU16(st.msgLen), 2))

\* SerializeType whose msgLen leaves out the 2 bytes of the length field
SerializeTypeLenAfter(dat, ti, vec) ==
    LET reset == VecReset(vec)
        msgLenPtr == Len(reset)
        blank == VecAppendBlanks(reset, 2)
        msgId == CastU16(ti.msgId)
        tag == SerNum16(Ptr(ObjBytes(msgId, 2), 0), blank)
        st0 == [msg |-> tag.serOut, msgLen |-> tag.ret]
        st == SerializeMembers(dat, ti.members, 1, MemberCount(ti.members), st0)
    IN  VecStore(st.msg, msgLenPtr, ObjBytes(CastU16(st.msgLen), 2))

\* SerializeType(data, typeInfo, msg): the contents of msg when it returns
SerializeType(dat, ti, vec) ==
    LET reset == VecReset(vec)
        msgLenPtr == Len(reset)
        blank == VecAppendBlanks(reset, 2)
        msgId == CastU16(ti.msgId)
        tag == SerNum16(Ptr(ObjBytes(msgId, 2), 0), blank)
        st0 == [msg |-> tag.serOut, msgLen |-> 2 + tag.ret]
        st == SerializeMembers(dat, ti.members, 1, MemberCount(ti.members), st0)
    IN  VecStore(st.msg, msgLenPtr, ObjBytes(CastU16(st.msgLen), 2))

-----------------------------------------------------------------------------
(* The process memtrace.dll is loaded into *)

NULL == 0
INVALID_HANDLE_VALUE == -1

\* a function pointer that was never set
NullFn == "NULL"

\* the hModule the loader passes to DllMain
ModuleHandle == "memtrace.dll"

\* the handles CreateFileA can return for the collector's pipe
PipeHandles == {4}

\* "hello, sailor"
Greeting == <<104, 101, 108, 108, 111, 44, 32, 115, 97, 105, 108, 111, 114>>

Threads == {"t1", "t2"}

\* the loader: the thread that runs DllMain
Loader == "loader"

Exports == {"RtlAllocateHeap", "RtlFreeHeap"}

\* the arguments the traced program calls RtlAllocateHeap and RtlFreeHeap with
AllocArgs == { [heapHandle |-> U32(32, 0), flags |-> U32(0, 0), size |-> U32(0, 64)],
               [heapHandle |-> U32(32, 0), flags |-> U32(0, 8), size |-> U32(1, 4096)] }

FreeArgs == { [heapHandle |-> U32(32, 0), flags |-> U32(0, 0), heapBase |-> U32(0, 4096)],
              [heapHandle |-> U32(32, 0), flags |-> U32(0, 1), heapBase |-> U32(0, 8192)] }

\* what ntdll's own RtlAllocateHeap (a block or NULL) and RtlFreeHeap return
AllocResults == { U32(0, 0), U32(0, 4096) }
FreeResults == BOOLEAN

\* a thread that is not inside a heap call and has completed none
ThreadIdle ==
    [pc |-> "idle", op |-> None, args |-> None, hooked |-> FALSE,
     orig |-> << >>, res |-> None, built |-> FALSE, d |-> None, msg |-> << >>,
     returned |-> FALSE, ret |-> None, log |-> << >>]

SysInit ==
    /\ gModule = None
    /\ gPipe = NULL
    /\ gRtlAllocateHeapOrig = NullFn
    /\ gRtlFreeHeapOrig = NullFn
    /\ gNtdllIntercept = [module |-> FALSE, hooked |-> {}]
    /\ dll = [pc |-> "idle", attach |-> "no", detached |-> FALSE,
              reason |-> None, ret |-> TRUE, ranInstallHooks |-> FALSE,
              callsAtDetach |-> 0]
    /\ os = [open |-> {}, opens |-> 0, closes |-> 0, writes |-> << >>]
    /\ th = [t \in Threads |-> ThreadIdle]
    /\ calls = 0

-----------------------------------------------------------------------------
(* The pipe *)

\* what WriteFile can do with a request of sLen bytes: write all, write
\* fewer, or fail
WriteFileOutcomes(sLen) ==
    { [ok |-> TRUE, size |-> sLen], [ok |-> TRUE, size |-> sLen - 1], [ok |-> FALSE, size |-> 0] }

\* WriteToPipe calling WriteFile a second time when the first did not write all of s
WriteToPipeRetries(s, by, outcome, pipe, sys) ==
    IF pipe = NULL
    THEN [os |-> sys, ret |-> FALSE]
    ELSE LET sLen == Len(s)
             call == [handle |-> pipe, live |-> pipe \in sys.open, bytes |-> s, len |-> sLen,
                      by |-> by, ok |-> outcome.ok, size |-> outcome.size]
         IN  IF ~outcome.ok \/ outcome.size # sLen
             THEN [os |-> [sys EXCEPT !.writes = Append(Append(@, call), call)], ret |-> FALSE]
             ELSE [os |-> [sys EXCEPT !.writes = Append(@, call)], ret |-> TRUE]

\* WriteToPipe(s) called by the thread by, WriteFile behaving as outcome:
\* the system's record of the pipe afterwards, and the bool returned
WriteToPipe(s, by, outcome, pipe, sys) ==
    IF pipe = NULL
    THEN [os |-> sys, ret |-> FALSE]
    ELSE LET sLen == Len(s)
             call == [handle |-> pipe, live |-> pipe \in sys.open, bytes |-> s, len |-> sLen,
                      by |-> by, ok |-> outcome.ok, size |-> outcome.size]
         IN  [os |-> [sys EXCEPT !.writes = Append(@, call)],
              ret |-> ~(~outcome.ok \/ outcome.size # sLen)]

\* DllMain(hModule, DLL_PROCESS_ATTACH): gModule = hModule; ProcessAttach() starts
DllMain_ProcessAttach ==
    /\ dll.pc = "idle"
    /\ dll.attach = "no"
    /\ gModule' = ModuleHandle
    /\ dll' = [dll EXCEPT !.pc = "TryOpenPipe", !.attach = "running"]
    /\ UNCHANGED <<gPipe, gRtlAllocateHeapOrig, gRtlFreeHeapOrig, gNtdllIntercept, os, th, calls>>
    /\ UNCHANGED <<codecVars, unitVars>>

\* TryOpenPipe: gPipe = CreateFileA(PIPE_NAME, ...)
TryOpenPipe_CreateFile ==
    /\ dll.pc = "TryOpenPipe"
    /\ \E h \in PipeHandles \cup {INVALID_HANDLE_VALUE} :
          /\ gPipe' = h
          /\ os' = IF h = INVALID_HANDLE_VALUE
                   THEN os
                   ELSE [os EXCEPT !.open = @ \cup {h}, !.opens = @ + 1]
    /\ dll' = [dll EXCEPT !.pc = "TryOpenPipe_check"]
    /\ UNCHANGED <<gModule, gRtlAllocateHeapOrig, gRtlFreeHeapOrig, gNtdllIntercept, th, calls>>
    /\ UNCHANGED <<codecVars, unitVars>>

\* TryOpenPipe_Check without gPipe = NULL
TryOpenPipe_CheckKeepsInvalid ==
    /\ dll.pc = "TryOpenPipe_check"
    /\ IF INVALID_HANDLE_VALUE = gPipe
       THEN /\ dll' = [dll EXCEPT !.pc = "idle", !.attach = "failed",
                                  !.reason = "DLL_PROCESS_ATTACH", !.ret = FALSE]
            /\ os' = os
       ELSE /\ \E outcome \in WriteFileOutcomes(Len(Greeting)) :
                  os' = WriteToPipe(Greeting, Loader, outcome, gPipe, os).os
            /\ dll' = [dll EXCEPT !.pc = "InstallHooks"]
    /\ UNCHANGED <<gModule, gPipe, gRtlAllocateHeapOrig, gRtlFreeHeapOrig, gNtdllIntercept, th, calls>>
    /\ UNCHANGED <<codecVars, unitVars>>

\* TryOpenPipe_Check without WriteToPipe("hello, sailor")
TryOpenPipe_CheckNoGreeting ==
    /\ dll.pc = "TryOpenPipe_check"
    /\ IF INVALID_HANDLE_VALUE = gPipe
       THEN /\ gPipe' = NULL
            /\ dll' = [dll EXCEPT !.pc = "idle", !.attach = "failed",
                                  !.reason = "DLL_PROCESS_ATTACH", !.ret = FALSE]
            /\ os' = os
       ELSE /\ os' = os
            /\ dll' = [dll EXCEPT !.pc = "InstallHooks"]
            /\ gPipe' = gPipe
    /\ UNCHANGED <<gModule, gRtlAllocateHeapOrig, gRtlFreeHeapOrig, gNtdllIntercept, th, calls>>
    /\ UNCHANGED <<codecVars, unitVars>>

\* TryOpenPipe_Check with ProcessAttach going on to InstallHooks whatever
\* TryOpenPipe returned
TryOpenPipe_CheckThenInstallAnyway ==
    /\ dll.pc = "TryOpenPipe_check"
    /\ IF INVALID_HANDLE_VALUE = gPipe
       THEN /\ gPipe' = NULL
            /\ dll' = [dll EXCEPT !.pc = "InstallHooks"]
            /\ os' = os
       ELSE /\ \E outcome \in WriteFileOutcomes(Len(Greeting)) :
                  os' = WriteToPipe(Greeting, Loader, outcome, gPipe, os).os
            /\ dll' = [dll EXCEPT !.pc = "InstallHooks"]
            /\ gPipe' = gPipe
    /\ UNCHANGED <<gModule, gRtlAllocateHeapOrig, gRtlFreeHeapOrig, gNtdllIntercept, th, calls>>
    /\ UNCHANGED <<codecVars, unitVars>>

\* TryOpenPipe after CreateFileA: on INVALID_HANDLE_VALUE gPipe = NULL and
\* ProcessAttach returns FALSE; otherwise WriteToPipe("hello, sailor") and
\* ProcessAttach goes on to InstallHooks
TryOpenPipe_Check ==
    /\ dll.pc = "TryOpenPipe_check"
    /\ IF INVALID_HANDLE_VALUE = gPipe
       THEN /\ gPipe' = NULL
            /\ dll' = [dll EXCEPT !.pc = "idle", !.attach = "failed",
                                  !.reason = "DLL_PROCESS_ATTACH", !.ret = FALSE]
            /\ os' = os
       ELSE /\ \E outcome \in WriteFileOutcomes(Len(Greeting)) :
                  os' = WriteToPipe(Greeting, Loader, outcome, gPipe, os).os
            /\ dll' = [dll EXCEPT !.pc = "InstallHooks"]
            /\ gPipe' = gPipe
    /\ UNCHANGED <<gModule, gRtlAllocateHeapOrig, gRtlFreeHeapOrig, gNtdllIntercept, th, calls>>
    /\ UNCHANGED <<codecVars, unitVars>>

\* ClosePipe_CloseHandle without the test of gPipe
ClosePipe_CloseHandleUnguarded ==
    /\ dll.pc = "ClosePipe"
    /\ os' = [os EXCEPT !.open = @ \ {gPipe}, !.closes = @ + 1]
    /\ dll' = [dll EXCEPT !.pc = "ClosePipe_null"]
    /\ UNCHANGED <<gModule, gPipe, gRtlAllocateHeapOrig, gRtlFreeHeapOrig, gNtdllIntercept, th, calls>>
    /\ UNCHANGED <<codecVars, unitVars>>

\* ClosePipe_CloseHandle without the call of CloseHandle
ClosePipe_CloseHandleSkipped ==
    /\ dll.pc = "ClosePipe"
    /\ os' = os
    /\ dll' = [dll EXCEPT !.pc = "ClosePipe_null"]
    /\ UNCHANGED <<gModule, gPipe, gRtlAllocateHeapOrig, gRtlFreeHeapOrig, gNtdllIntercept, th, calls>>
    /\ UNCHANGED <<codecVars, unitVars>>

\* ClosePipe: if (gPipe && INVALID_HANDLE_VALUE != gPipe) CloseHandle(gPipe)
ClosePipe_CloseHandle ==
    /\ dll.pc = "ClosePipe"
    /\ os' = IF gPipe # NULL /\ INVALID_HANDLE_VALUE # gPipe
             THEN [os EXCEPT !.open = @ \ {gPipe}, !.closes = @ + 1]
             ELSE os
    /\ dll' = [dll EXCEPT !.pc = "ClosePipe_null"]
    /\ UNCHANGED <<gModule, gPipe, gRtlAllocateHeapOrig, gRtlFreeHeapOrig, gNtdllIntercept, th, calls>>
    /\ UNCHANGED <<codecVars, unitVars>>

\* ClosePipe_SetNull without gPipe = NULL
ClosePipe_ReturnsWithoutNull ==
    /\ dll.pc = "ClosePipe_null"
    /\ dll' = [dll EXCEPT !.pc = "idle", !.detached = TRUE, !.callsAtDetach = calls,
                          !.reason = "DLL_PROCESS_DETACH", !.ret = TRUE]
    /\ UNCHANGED <<gModule, gPipe, gRtlAllocateHeapOrig, gRtlFreeHeapOrig, gNtdllIntercept, os, th, calls>>
    /\ UNCHANGED <<codecVars, unitVars>>

\* ClosePipe: gPipe = NULL; ProcessDetach returns TRUE
ClosePipe_SetNull ==
    /\ dll.pc = "ClosePipe_null"
    /\ gPipe' = NULL
    /\ dll' = [dll EXCEPT !.pc = "idle", !.detached = TRUE, !.callsAtDetach = calls,
                          !.reason = "DLL_PROCESS_DETACH", !.ret = TRUE]
    /\ UNCHANGED <<gModule, gRtlAllocateHeapOrig, gRtlFreeHeapOrig, gNtdllIntercept, os, th, calls>>
    /\ UNCHANGED <<codecVars, unitVars>>

-----------------------------------------------------------------------------
(* Hook installation *)

\* WindowsDllInterceptor::Init(moduleName): resolved tells whether the module was found
InterceptorInit(icpt, resolved) == [icpt EXCEPT !.module = resolved]

\* WindowsDllInterceptor::AddHook(pname, hookDest, origFunc) when the patch
\* succeeds (patched) or not: the interceptor, *origFunc and the bool returned
AddHook(icpt, pname, origFunc, patched) ==
    IF icpt.module /\ patched
    THEN [icpt |-> [icpt EXCEPT !.hooked = @ \cup {pname}], origFunc |-> pname, ret |-> TRUE]
    ELSE [icpt |-> icpt, origFunc |-> origFunc, ret |-> FALSE]

\* InstallHooks: gNtdllIntercept.Init("ntdll.dll")
InstallHooks_Init ==
    /\ dll.pc = "InstallHooks"
    /\ \E resolved \in BOOLEAN : gNtdllIntercept' = InterceptorInit(gNtdllIntercept, resolved)
    /\ dll' = [dll EXCEPT !.pc = "AddHook_RtlAllocateHeap", !.ranInstallHooks = TRUE]
    /\ UNCHANGED <<gModule, gPipe, gRtlAllocateHeapOrig, gRtlFreeHeapOrig, os, th, calls>>
    /\ UNCHANGED <<codecVars, unitVars>>

\* InstallHooks_AddAllocHook passing &gRtlFreeHeapOrig
InstallHooks_AddAllocHookFreeSlot ==
    /\ dll.pc = "AddHook_RtlAllocateHeap"
    /\ \E patched \in BOOLEAN :
          LET r == AddHook(gNtdllIntercept, "RtlAllocateHeap", gRtlFreeHeapOrig, patched)
          IN  /\ gNtdllIntercept' = r.icpt
              /\ gRtlFreeHeapOrig' = r.origFunc
    /\ dll' = [dll EXCEPT !.pc = "AddHook_RtlFreeHeap"]
    /\ UNCHANGED <<gModule, gPipe, gRtlAllocateHeapOrig, os, th, calls>>
    /\ UNCHANGED <<codecVars, unitVars>>

\* InstallHooks: AddHook("RtlAllocateHeap", RtlAllocateHeapHook, &gRtlAllocateHeapOrig)
InstallHooks_AddAllocHook ==
    /\ dll.pc = "AddHook_RtlAllocateHeap"
    /\ \E patched \in BOOLEAN :
          LET r == AddHook(gNtdllIntercept, "RtlAllocateHeap", gRtlAllocateHeapOrig, patched)
          IN  /\ gNtdllIntercept' = r.icpt
              /\ gRtlAllocateHeapOrig' = r.origFunc
    /\ dll' = [dll EXCEPT !.pc = "AddHook_RtlFreeHeap"]
    /\ UNCHANGED <<gModule, gPipe, gRtlFreeHeapOrig, os, th, calls>>
    /\ UNCHANGED <<codecVars, unitVars>>

\* InstallHooks_AddFreeHook with ProcessAttach returning what AddHook returned
InstallHooks_AddFreeHookReportsResult ==
    /\ dll.pc = "AddHook_RtlFreeHeap"
    /\ \E patched \in BOOLEAN :
          LET r == AddHook(gNtdllIntercept, "RtlFreeHeap", gRtlFreeHeapOrig, patched)
          IN  /\ gNtdllIntercept' = r.icpt
              /\ gRtlFreeHeapOrig' = r.origFunc
              /\ dll' = [dll EXCEPT !.pc = "idle", !.attach = "ok",
                                    !.reason = "DLL_PROCESS_ATTACH", !.ret = r.ret]
    /\ UNCHANGED <<gModule, gPipe, gRtlAllocateHeapOrig, os, th, calls>>
    /\ UNCHANGED <<codecVars, unitVars>>

\* InstallHooks_AddFreeHook passing &gRtlAllocateHeapOrig
InstallHooks_AddFreeHookAllocSlot ==
    /\ dll.pc = "AddHook_RtlFreeHeap"
    /\ \E patched \in BOOLEAN :
          LET r == AddHook(gNtdllIntercept, "RtlFreeHeap", gRtlAllocateHeapOrig, patched)
          IN  /\ gNtdllIntercept' = r.icpt
              /\ gRtlAllocateHeapOrig' = r.origFunc
    /\ dll' = [dll EXCEPT !.pc = "idle", !.attach = "ok",
                          !.reason = "DLL_PROCESS_ATTACH", !.ret = TRUE]
    /\ UNCHANGED <<gModule, gPipe, gRtlFreeHeapOrig, os, th, calls>>
    /\ UNCHANGED <<codecVars, unitVars>>

\* InstallHooks: AddHook("RtlFreeHeap", RtlFreeHeapHook, &gRtlFreeHeapOrig);
\* InstallHooks returns and ProcessAttach returns TRUE
InstallHooks_AddFreeHook ==
    /\ dll.pc = "AddHook_RtlFreeHeap"
    /\ \E patched \in BOOLEAN :
          LET r == AddHook(gNtdllIntercept, "RtlFreeHeap", gRtlFreeHeapOrig, patched)
          IN  /\ gNtdllIntercept' = r.icpt
              /\ gRtlFreeHeapOrig' = r.origFunc
    /\ dll' = [dll EXCEPT !.pc = "idle", !.attach = "ok",
                          !.reason = "DLL_PROCESS_ATTACH", !.ret = TRUE]
    /\ UNCHANGED <<gModule, gPipe, gRtlAllocateHeapOrig, os, th, calls>>
    /\ UNCHANGED <<codecVars, unitVars>>

-----------------------------------------------------------------------------
(* DllMain's other reasons.  The loader calls DllMain one call at a time:    *)
(* DLL_PROCESS_ATTACH first, thread notifications while the DLL is loaded,   *)
(* DLL_PROCESS_DETACH last (also after an attach that returned FALSE).       *)

\* DllMain(hModule, DLL_PROCESS_DETACH): gModule = hModule; ProcessDetach() starts
DllMain_ProcessDetach ==
    /\ dll.pc = "idle"
    /\ dll.attach \in {"ok", "failed"}
    /\ ~dll.detached
    /\ gModule' = ModuleHandle
    /\ dll' = [dll EXCEPT !.pc = "ClosePipe"]
    /\ UNCHANGED <<gPipe, gRtlAllocateHeapOrig, gRtlFreeHeapOrig, gNtdllIntercept, os, th, calls>>
    /\ UNCHANGED <<codecVars, unitVars>>

\* DllMain(hModule, DLL_THREAD_ATTACH): ThreadAttach() returns TRUE
DllMain_ThreadAttach ==
    /\ dll.pc = "idle"
    /\ dll.attach \in {"ok", "failed"}
    /\ ~dll.detached
    /\ gModule' = ModuleHandle
    /\ dll' = [dll EXCEPT !.reason = "DLL_THREAD_ATTACH", !.ret = TRUE]
    /\ UNCHANGED <<gPipe, gRtlAllocateHeapOrig, gRtlFreeHeapOrig, gNtdllIntercept, os, th, calls>>
    /\ UNCHANGED <<codecVars, unitVars>>

\* DllMain_ThreadDetach with ThreadDetach calling ClosePipe
DllMain_ThreadDetachClosesPipe ==
    /\ dll.pc = "idle"
    /\ dll.attach \in {"ok", "failed"}
    /\ ~dll.detached
    /\ gModule' = ModuleHandle
    /\ os' = IF gPipe # NULL /\ INVALID_HANDLE_VALUE # gPipe
             THEN [os EXCEPT !.open = @ \ {gPipe}, !.closes = @ + 1]
             ELSE os
    /\ gPipe' = NULL
    /\ dll' = [dll EXCEPT !.reason = "DLL_THREAD_DETACH", !.ret = TRUE]
    /\ UNCHANGED <<gRtlAllocateHeapOrig, gRtlFreeHeapOrig, gNtdllIntercept, th, calls>>
    /\ UNCHANGED <<codecVars, unitVars>>

\* DllMain(hModule, DLL_THREAD_DETACH): ThreadDetach() returns TRUE
DllMain_ThreadDetach ==
    /\ dll.pc = "idle"
    /\ dll.attach \in {"ok", "failed"}
    /\ ~dll.detached
    /\ gModule' = ModuleHandle
    /\ dll' = [dll EXCEPT !.reason = "DLL_THREAD_DETACH", !.ret = TRUE]
    /\ UNCHANGED <<gPipe, gRtlAllocateHeapOrig, gRtlFreeHeapOrig, gNtdllIntercept, os, th, calls>>
    /\ UNCHANGED <<codecVars, unitVars>>

-----------------------------------------------------------------------------
(* The traced program's threads.  A call of an export that AddHook redirected *)
(* runs the hook; a call of one that was not runs ntdll's own function.       *)
(* th[t] holds the call: op and args as the caller passed them, orig the      *)
(* calls made of ntdll's own functions during it (function, arguments, value  *)
(* returned), res the hook's local res,                                       *)
(* d and msg the hook's locals once built, ret the value the caller got,      *)
(* log the message ids of the hook invocations of t that returned.            *)

\* a thread calls RtlAllocateHeap(heapHandle, flags, size)
CallRtlAllocateHeap(t) ==
    /\ th[t].pc = "idle"
    /\ calls < MaxCalls
    /\ calls' = calls + 1
    /\ \E a \in AllocArgs :
          IF "RtlAllocateHeap" \in gNtdllIntercept.hooked
          THEN th' = [th EXCEPT ![t] =
                        [ThreadIdle EXCEPT !.pc = "orig", !.op = "RtlAllocateHeap", !.args = a,
                                           !.hooked = TRUE, !.log = th[t].log]]
          ELSE \E r \in AllocResults :
                  th' = [th EXCEPT ![t] =
                            [ThreadIdle EXCEPT !.op = "RtlAllocateHeap", !.args = a,
                                               !.orig = << [fn |-> "RtlAllocateHeap", args |-> a, ret |-> r] >>,
                                               !.res = r, !.returned = TRUE, !.ret = r,
                                               !.log = th[t].log]]
    /\ UNCHANGED <<gModule, gPipe, gRtlAllocateHeapOrig, gRtlFreeHeapOrig, gNtdllIntercept, dll, os>>
    /\ UNCHANGED <<codecVars, unitVars>>

\* a thread calls RtlFreeHeap(heapHandle, flags, heapBase)
CallRtlFreeHeap(t) ==
    /\ th[t].pc = "idle"
    /\ calls < MaxCalls
    /\ calls' = calls + 1
    /\ \E a \in FreeArgs :
          IF "RtlFreeHeap" \in gNtdllIntercept.hooked
          THEN th' = [th EXCEPT ![t] =
                        [ThreadIdle EXCEPT !.pc = "orig", !.op = "RtlFreeHeap", !.args = a,
                                           !.hooked = TRUE, !.log = th[t].log]]
          ELSE \E r \in FreeResults :
                  th' = [th EXCEPT ![t] =
                            [ThreadIdle EXCEPT !.op = "RtlFreeHeap", !.args = a,
                                               !.orig = << [fn |-> "RtlFreeHeap", args |-> a, ret |-> r] >>,
                                               !.res = r, !.returned = TRUE, !.ret = r,
                                               !.log = th[t].log]]
    /\ UNCHANGED <<gModule, gPipe, gRtlAllocateHeapOrig, gRtlFreeHeapOrig, gNtdllIntercept, dll, os>>
    /\ UNCHANGED <<codecVars, unitVars>>

\* what the function a pointer set by AddHook leads to can return
OrigResults(fn) == IF fn = "RtlAllocateHeap" THEN AllocResults ELSE FreeResults

\* RtlAllocateHeapHook_CallOrig passing 0 for flags
RtlAllocateHeapHook_CallOrigNoFlags(t) ==
    /\ th[t].pc = "orig"
    /\ th[t].op = "RtlAllocateHeap"
    /\ IF gRtlAllocateHeapOrig = NullFn
       THEN th' = [th EXCEPT ![t].pc = "crashed"]
       ELSE \E r \in OrigResults(gRtlAllocateHeapOrig) :
              th' = [th EXCEPT ![t].pc = "serialize",
                               ![t].orig = Append(@, [fn |-> gRtlAllocateHeapOrig,
                                                      args |-> [heapHandle |-> th[t].args.heapHandle,
                                                                flags |-> U32(0, 0),
                                                                size |-> th[t].args.size],
                                                      ret |-> r]),
                               ![t].res = r]
    /\ UNCHANGED <<gModule, gPipe, gRtlAllocateHeapOrig, gRtlFreeHeapOrig, gNtdllIntercept,
                   dll, os, calls>>
    /\ UNCHANGED <<codecVars, unitVars>>

\* RtlAllocateHeapHook: PVOID res = gRtlAllocateHeapOrig(heapHandle, flags, size).
\* A call through a pointer that was never set does not return.
RtlAllocateHeapHook_CallOrig(t) ==
    /\ th[t].pc = "orig"
    /\ th[t].op = "RtlAllocateHeap"
    /\ IF gRtlAllocateHeapOrig = NullFn
       THEN th' = [th EXCEPT ![t].pc = "crashed"]
       ELSE \E r \in OrigResults(gRtlAllocateHeapOrig) :
              th' = [th EXCEPT ![t].pc = "serialize",
                               ![t].orig = Append(@, [fn |-> gRtlAllocateHeapOrig,
                                                      args |-> [heapHandle |-> th[t].args.heapHandle,
                                                                flags |-> th[t].args.flags,
                                                                size |-> th[t].args.size],
                                                      ret |-> r]),
                               ![t].res = r]
    /\ UNCHANGED <<gModule, gPipe, gRtlAllocateHeapOrig, gRtlFreeHeapOrig, gNtdllIntercept,
                   dll, os, calls>>
    /\ UNCHANGED <<codecVars, unitVars>>

\* RtlAllocateHeapHook: AllocData d = { (uint32)size, (uint32)res }; Vec<byte> msg;
\* SerializeType((byte*)&d, &allocDataTypeInfo, msg)
RtlAllocateHeapHook_Serialize(t) ==
    /\ th[t].pc = "serialize"
    /\ th[t].op = "RtlAllocateHeap"
    /\ LET d == [kind |-> "AllocData", size |-> th[t].args.size, addr |-> th[t].res]
       IN  th' = [th EXCEPT ![t].pc = "return",
                            ![t].built = TRUE,
                            ![t].d = d,
                            ![t].msg = SerializeType(RecordBytes(d), allocDataTypeInfo, << >>)]
    /\ UNCHANGED <<gModule, gPipe, gRtlAllocateHeapOrig, gRtlFreeHeapOrig, gNtdllIntercept,
                   dll, os, calls>>
    /\ UNCHANGED <<codecVars, unitVars>>

\* RtlAllocateHeapHook: return res (msg and d go out of scope)
RtlAllocateHeapHook_Return(t) ==
    /\ th[t].pc = "return"
    /\ th[t].op = "RtlAllocateHeap"
    /\ th' = [th EXCEPT ![t].pc = "idle",
                        ![t].returned = TRUE,
                        ![t].ret = th[t].res,
                        ![t].d = None,
                        ![t].msg = << >>,
                        ![t].log = Append(@, allocDataTypeInfo.msgId)]
    /\ UNCHANGED <<gModule, gPipe, gRtlAllocateHeapOrig, gRtlFreeHeapOrig, gNtdllIntercept,
                   dll, os, calls>>
    /\ UNCHANGED <<codecVars, unitVars>>

\* RtlFreeHeapHook: BOOLEAN res = gRtlFreeHeapOrig(heapHandle, flags, heapBase)
RtlFreeHeapHook_CallOrig(t) ==
    /\ th[t].pc = "orig"
    /\ th[t].op = "RtlFreeHeap"
    /\ IF gRtlFreeHeapOrig = NullFn
       THEN th' = [th EXCEPT ![t].pc = "crashed"]
       ELSE \E r \in OrigResults(gRtlFreeHeapOrig) :
              th' = [th EXCEPT ![t].pc = "serialize",
                               ![t].orig = Append(@, [fn |-> gRtlFreeHeapOrig,
                                                      args |-> [heapHandle |-> th[t].args.heapHandle,
                                                                flags |-> th[t].args.flags,
                                                                heapBase |-> th[t].args.heapBase],
                                                      ret |-> r]),
                               ![t].res = r]
    /\ UNCHANGED <<gModule, gPipe, gRtlAllocateHeapOrig, gRtlFreeHeapOrig, gNtdllIntercept,
                   dll, os, calls>>
    /\ UNCHANGED <<codecVars, unitVars>>

\* RtlFreeHeapHook: FreeData d = { (uint32)heapBase }; Vec<byte> msg;
\* SerializeType((byte*)&d, &freeDataTypeInfo, msg)
RtlFreeHeapHook_Serialize(t) ==
    /\ th[t].pc = "serialize"
    /\ th[t].op = "RtlFreeHeap"
    /\ LET d == [kind |-> "FreeData", addr |-> th[t].args.heapBase]
       IN  th' = [th EXCEPT ![t].pc = "return",
                            ![t].built = TRUE,
                            ![t].d = d,
                            ![t].msg = SerializeType(RecordBytes(d), freeDataTypeInfo, << >>)]
    /\ UNCHANGED <<gModule, gPipe, gRtlAllocateHeapOrig, gRtlFreeHeapOrig, gNtdllIntercept,
                   dll, os, calls>>
    /\ UNCHANGED <<codecVars, unitVars>>

\* RtlFreeHeapHook: return res
RtlFreeHeapHook_Return(t) ==
    /\ th[t].pc = "return"
    /\ th[t].op = "RtlFreeHeap"
    /\ th' = [th EXCEPT ![t].pc = "idle",
                        ![t].returned = TRUE,
                        ![t].ret = th[t].res,
                        ![t].d = None,
                        ![t].msg = << >>,
                        ![t].log = Append(@, freeDataTypeInfo.msgId)]
    /\ UNCHANGED <<gModule, gPipe, gRtlAllocateHeapOrig, gRtlFreeHeapOrig, gNtdllIntercept,
                   dll, os, calls>>
    /\ UNCHANGED <<codecVars, unitVars>>

-----------------------------------------------------------------------------
(* Spec: the DLL in a process *)

\* no direct call of the pipe's functions was made
NoPipeCalls ==
    [writes |-> 0, closes |-> 0, had |-> << >>,
     last |-> [called |-> FALSE, pipe |-> NULL, pipeAfter |-> NULL, len |-> 0,
               attempts |-> 0, ok |-> FALSE, size |-> 0, ret |-> FALSE]]

\* no stream was opened.  kind: which fz_open_* is called; fd, bufRefs: its
\* argument (the descriptor, or the references held on the fz_buffer); state:
\* whether the state object exists; stateFrees: how often the stream module
\* released it (fz_free of the int, fz_drop_buffer of the buffer); fdCloses:
\* calls of close(fd); stm, refs: the fz_stream and its refs field; keeps,
\* closes: calls of fz_keep_stream and fz_close; closeCalls: calls of the
\* close callback
NoStream ==
    [pc |-> "off", kind |-> None, fd |-> -1, bufRefs |-> 0, state |-> FALSE, stateFrees |-> 0,
     fdCloses |-> 0, stm |-> "none", refs |-> 0, keeps |-> 0, closes |-> 0, closeCalls |-> 0]

\* SpecPipe's and SpecStream's variables, unused elsewhere
UnitsOff ==
    /\ pipeCalls = NoPipeCalls
    /\ fz = NoStream

\* the codec specifications' variables, unused here
CodecOff ==
    /\ rec = None
    /\ data = << >>
    /\ typeInfo = None
    /\ msg = << >>
    /\ prior = << >>
    /\ phase = "off"
    /\ kept = NothingKept

Init == SysInit /\ CodecOff /\ UnitsOff

Next ==
    \/ DllMain_ProcessAttach
    \/ TryOpenPipe_CreateFile
    \/ TryOpenPipe_Check
    \/ InstallHooks_Init
    \/ InstallHooks_AddAllocHook
    \/ InstallHooks_AddFreeHook
    \/ DllMain_ThreadAttach
    \/ DllMain_ThreadDetach
    \/ DllMain_ProcessDetach
    \/ ClosePipe_CloseHandle
    \/ ClosePipe_SetNull
    \/ \E t \in Threads : CallRtlAllocateHeap(t)
    \/ \E t \in Threads : RtlAllocateHeapHook_CallOrig(t)
    \/ \E t \in Threads : RtlAllocateHeapHook_Serialize(t)
    \/ \E t \in Threads : RtlAllocateHeapHook_Return(t)
    \/ \E t \in Threads : CallRtlFreeHeap(t)
    \/ \E t \in Threads : RtlFreeHeapHook_CallOrig(t)
    \/ \E t \in Threads : RtlFreeHeapHook_Serialize(t)
    \/ \E t \in Threads : RtlFreeHeapHook_Return(t)

Spec == Init /\ [][Next]_vars

-----------------------------------------------------------------------------
(* Inputs of the codec specifications *)

\* 0, 64, 0x1000, 0x2000, 0x12345678, 0xFFFFFFFF
U32Samples == { U32(0, 0), U32(0, 64), U32(0, 4096), U32(0, 8192),
                U32(4660, 22136), U32(65535, 65535) }

\* the structs the hooks fill in
AllocRecords == { [kind |-> "AllocData", size |-> size, addr |-> addr] :
                    size \in U32Samples, addr \in U32Samples }
FreeRecords == { [kind |-> "FreeData", addr |-> addr] : addr \in U32Samples }

\* an 8-byte struct of another type, as its bytes
RawRecords == { [kind |-> "raw", bytes |-> b] :
                    b \in { <<1, 2, 3, 4, 5, 6, 7, 8>>, <<255, 0, 128, 64, 0, 0, 16, 0>> } }

\* members that lie inside an 8-byte struct
MemberChoices ==
    { MemberSerializeInfo("UInt16", 0), MemberSerializeInfo("UInt16", 6),
      MemberSerializeInfo("Int32", 0),  MemberSerializeInfo("UInt32", 4),
      MemberSerializeInfo("Int64", 0),  MemberSerializeInfo("UInt64", 0) }

MemberLists ==
    UNION { [1..n -> MemberChoices] : n \in 0..MaxMembers }

Schemas ==
    { [msgId |-> id, members |-> Append(ms, SERIALIZEINFO_SENTINEL)] :
        id \in {AllocDataMsgId, FreeDataMsgId}, ms \in MemberLists }

\* a schema of n members of one type, all read at offset 0
LongSchema(type, n) ==
    [msgId |-> AllocDataMsgId,
     members |-> [i \in 1..(n + 1) |->
                    IF i <= n THEN MemberSerializeInfo(type, 0) ELSE SERIALIZEINFO_SENTINEL]]

\* the number of 4-byte members whose message is UInt16Range bytes long
WrapMembers == (UInt16Range - 4) \div 4

\* schemas whose message is as long as a uint16 can count, or a member less
LongSchemas == { LongSchema("UInt32", WrapMembers + k) : k \in {-1, 0} }

\* the (record, schema) pairs of the codec specifications
HookInputs ==
    { <<r, allocDataTypeInfo>> : r \in AllocRecords }
    \cup { <<r, freeDataTypeInfo>> : r \in FreeRecords }

SchemaInputs == RawRecords \X Schemas

LongInputs == { <<[kind |-> "raw", bytes |-> <<1, 2, 3, 4, 5, 6, 7, 8>>], ti>> : ti \in LongSchemas }

WireInputs == HookInputs \cup SchemaInputs \cup LongInputs

\* what a Vec<byte> may hold before a call
PriorContents == { << >>, <<255, 255, 255>>, <<9, 0, 2, 0, 1, 1, 1, 1, 7>> }

-----------------------------------------------------------------------------
(* SpecWire: one call of SerializeType *)

WireInit ==
    /\ \E in \in WireInputs :
          /\ rec = in[1]
          /\ data = RecordBytes(in[1])
          /\ typeInfo = in[2]
    /\ msg \in PriorContents
    /\ prior = msg
    /\ phase = "init"
    /\ kept = NothingKept
    /\ SysInit
    /\ UnitsOff

WireSerialize ==
    /\ phase = "init"
    /\ prior' = msg
    /\ msg' = SerializeType(data, typeInfo, msg)
    /\ phase' = "done"
    /\ UNCHANGED <<rec, data, typeInfo, kept>>
    /\ UNCHANGED <<sysVars, unitVars>>

WireNext == WireSerialize

SpecWire == WireInit /\ [][WireNext]_vars

-----------------------------------------------------------------------------
(* The codec's claims, under SpecWire *)

\* the uint16 at offset 0 of the message
TotalLength(m) == ObjValue(SubSeq(m, 1, 2))

\* the uint16 at offset 2 of the message
MessageKind(m) == ObjValue(SubSeq(m, 3, 4))

HasMemberOfType(ti, type) == \E i \in 1..Len(ti.members) : ti.members[i].type = type

\* C1 as stated: after SerializeType returns, the uint16 at offset 0 of the
\* message equals the number of bytes in the message, for every schema.
C1_LengthIsSizeAlways ==
    phase = "done" => TotalLength(msg) = Len(msg)

\* C1: after SerializeType returns, the uint16 at offset 0 of the message
\* equals the number of bytes in the message (length field, kind tag and all
\* field bytes), whatever the buffer held before the call, for every schema
\* whose message is shorter than 65536 bytes.
C1_LengthIsSize ==
    (phase = "done" /\ Len(msg) < UInt16Range) => TotalLength(msg) = Len(msg)

\* a schema mixing a 16-bit and a 64-bit member was serialized into a buffer
\* that was not empty
C1_Witness ==
    /\ phase = "done"
    /\ prior # << >>
    /\ HasMemberOfType(typeInfo, "UInt16")
    /\ HasMemberOfType(typeInfo, "Int64")
    /\ TotalLength(msg) = Len(msg)
    /\ Len(msg) = 10

\* C2 as stated: the length decoded from offset 0 equals the number of bytes
\* that follow the length field (the message size minus 2).
C2_LengthIsBytesFollowing ==
    phase = "done" => TotalLength(msg) = Len(SubSeq(msg, 3, Len(msg)))

\* C2: for a message shorter than 65536 bytes, the length decoded from offset
\* 0 counts the length field too: it is the number of bytes that follow the
\* length field plus 2.
C2_LengthCountsItself ==
    (phase = "done" /\ Len(msg) < UInt16Range)
        => TotalLength(msg) = Len(SubSeq(msg, 3, Len(msg))) + 2

\* a FreeData message: 6 bytes follow the length field, which holds 8
C2_Witness ==
    /\ phase = "done"
    /\ rec.kind = "FreeData"
    /\ Len(SubSeq(msg, 3, Len(msg))) = 6
    /\ TotalLength(msg) = 8

Rec64_0x1000 == [kind |-> "AllocData", size |-> U32(0, 64), addr |-> U32(0, 4096)]

\* C3 as stated: AllocData{size=64, addr=0x1000} serializes to 12 bytes whose
\* length field holds 8: 08 00 01 00 40 00 00 00 00 10 00 00.
C3_ScenarioLength8 ==
    (phase = "done" /\ rec = Rec64_0x1000 /\ typeInfo = allocDataTypeInfo)
        => msg = <<8, 0, 1, 0, 64, 0, 0, 0, 0, 16, 0, 0>>

\* C3: AllocData{size=64, addr=0x1000} serializes to exactly 12 bytes: a
\* length field whose value is 12, kind tag 01 00, 40 00 00 00, 00 10 00 00.
C3_ScenarioLength12 ==
    (phase = "done" /\ rec = Rec64_0x1000 /\ typeInfo = allocDataTypeInfo)
        => msg = <<12, 0, 1, 0, 64, 0, 0, 0, 0, 16, 0, 0>>

C3_Witness ==
    /\ phase = "done"
    /\ rec = Rec64_0x1000
    /\ typeInfo = allocDataTypeInfo
    /\ Len(msg) = 12

\* C4: for every AllocData, decoding bytes 4..7 of its message as size and
\* bytes 8..11 as address recovers the size and the address supplied.
C4_AllocRoundTrip ==
    (phase = "done" /\ rec.kind = "AllocData")
        => /\ Obj32Value(SubSeq(msg, 5, 8)) = rec.size
           /\ Obj32Value(SubSeq(msg, 9, 12)) = rec.addr

\* size 0xFFFFFFFF and address 0x12345678 came back
C4_Witness ==
    /\ phase = "done"
    /\ rec.kind = "AllocData"
    /\ rec.size = U32(65535, 65535)
    /\ rec.addr = U32(4660, 22136)
    /\ Obj32Value(SubSeq(msg, 5, 8)) = U32(65535, 65535)
    /\ Obj32Value(SubSeq(msg, 9, 12)) = U32(4660, 22136)

\* C6: a message is a 2-byte length, a 2-byte kind tag (1 for AllocData, 2
\* for FreeData), then the fields in schema order tightly packed: 8 bytes
\* (size, address) after the header for AllocData, 4 (address) for FreeData.
C6_WireLayout ==
    phase = "done" =>
        /\ rec.kind = "AllocData" =>
              /\ MessageKind(msg) = 1
              /\ SubSeq(msg, 5, Len(msg)) = Obj32Bytes(rec.size) \o Obj32Bytes(rec.addr)
              /\ Len(msg) - 4 = 8
        /\ rec.kind = "FreeData" =>
              /\ MessageKind(msg) = 2
              /\ SubSeq(msg, 5, Len(msg)) = Obj32Bytes(rec.addr)
              /\ Len(msg) - 4 = 4

\* FreeData{addr=0x2000}: kind 2, payload 00 20 00 00
C6_Witness ==
    /\ phase = "done"
    /\ rec = [kind |-> "FreeData", addr |-> U32(0, 8192)]
    /\ msg = <<8, 0, 2, 0, 0, 32, 0, 0>>

-----------------------------------------------------------------------------
(* SpecReuse: calls of SerializeType, one after the other, on one Vec<byte> *)

ReuseSamples == { U32(0, 64), U32(4660, 22136) }

ReuseSchemas ==
    { [msgId |-> FreeDataMsgId, members |-> Append(ms, SERIALIZEINFO_SENTINEL)] :
        ms \in { << >>,
                 << MemberSerializeInfo("UInt16", 6) >>,
                 << MemberSerializeInfo("UInt64", 0), MemberSerializeInfo("UInt16", 0) >> } }

ReuseInputs ==
    { in \in HookInputs :
        /\ in[1].addr \in ReuseSamples
        /\ in[1].kind = "AllocData" => in[1].size \in ReuseSamples }
    \cup (RawRecords \X ReuseSchemas)

ReuseInit ==
    /\ rec = None
    /\ data = << >>
    /\ typeInfo = None
    /\ msg \in PriorContents
    /\ prior = msg
    /\ phase = "init"
    /\ kept = NothingKept
    /\ SysInit
    /\ UnitsOff

\* the caller serializes the record in[1] with the schema in[2] into msg
ReuseSerialize ==
    \E in \in ReuseInputs :
        /\ rec' = in[1]
        /\ data' = RecordBytes(in[1])
        /\ typeInfo' = in[2]
        /\ prior' = msg
        /\ msg' = SerializeType(RecordBytes(in[1]), in[2], msg)
        /\ phase' = "done"
        /\ kept' = IF kept.has /\ <<kept.rec, kept.typeInfo>> # in
                   THEN [kept EXCEPT !.between = TRUE]
                   ELSE kept
    /\ UNCHANGED <<sysVars, unitVars>>

\* an observer keeps the last call's inputs and output to compare later
\* calls with; between tells whether other inputs were serialized since
ReuseKeep ==
    /\ phase = "done"
    /\ kept' = [has |-> TRUE, rec |-> rec, typeInfo |-> typeInfo, msg |-> msg, between |-> FALSE]
    /\ UNCHANGED <<rec, data, typeInfo, msg, prior, phase>>
    /\ UNCHANGED <<sysVars, unitVars>>

ReuseNext == ReuseSerialize \/ ReuseKeep

SpecReuse == ReuseInit /\ [][ReuseNext]_vars

\* C5: serializing the same record with the same schema again into the
\* reused buffer gives the same bytes as before, also when other records or
\* schemas were serialized into the buffer in between.
C5_SameInputsSameBytes ==
    (phase = "done" /\ kept.has /\ kept.rec = rec /\ kept.typeInfo = typeInfo)
        => msg = kept.msg

\* the kept inputs were serialized again after other inputs, into a buffer
\* that held another message
C5_Witness ==
    /\ phase = "done"
    /\ kept.has
    /\ kept.rec = rec
    /\ kept.typeInfo = typeInfo
    /\ kept.between
    /\ prior # kept.msg
    /\ msg = kept.msg

-----------------------------------------------------------------------------
(* The hooks' and the lifecycle's claims, under Spec *)

\* the message kinds of the records of thread t that reached the collector,
\* in the order they were written
RECURSIVE KindsOf(_)
KindsOf(ws) == IF ws = << >> THEN << >> ELSE <<MessageKind(Head(ws).bytes)>> \o KindsOf(Tail(ws))

RecordsObserved(t) ==
    KindsOf(SelectSeq(os.writes, LAMBDA w : w.by = t /\ w.ok /\ w.size = w.len))

\* C7 as stated: with the collector connected and both hooks installed, each
\* hooked allocate or free call that returned has handed exactly one record
\* of its kind to the pipe, and the collector has each thread's records in
\* the order of that thread's calls.
C7_EveryHookCallSendsOneRecord ==
    (gPipe \in os.open /\ gNtdllIntercept.hooked = Exports)
        => \A t \in Threads : RecordsObserved(t) = th[t].log

\* C8: a hook invocation calls the original entry point exactly once, before
\* it builds its record, with the arguments its caller passed, and returns
\* the value the original returned, whatever the state of the pipe.
C8_HookPassesThrough ==
    \A t \in Threads :
        th[t].hooked =>
            /\ th[t].pc # "crashed"
            /\ th[t].pc = "orig" => (th[t].orig = << >> /\ ~th[t].built)
            /\ th[t].built => Len(th[t].orig) = 1
            /\ th[t].pc # "orig" =>
                  /\ Len(th[t].orig) = 1
                  /\ th[t].orig[1].fn = th[t].op
                  /\ th[t].orig[1].args = th[t].args
            /\ th[t].returned => th[t].ret = th[t].orig[1].ret

\* a hooked allocation with flags 8 returned its block while the pipe was
\* open, and a hooked free returned after the pipe was closed
C8_Witness ==
    /\ dll.detached
    /\ os.closes = 1
    /\ th["t1"].hooked /\ th["t1"].returned /\ th["t1"].op = "RtlAllocateHeap"
    /\ th["t1"].args.flags = U32(0, 8)
    /\ th["t1"].ret = U32(0, 4096)
    /\ th["t2"].hooked /\ th["t2"].returned /\ th["t2"].op = "RtlFreeHeap"
    /\ th["t2"].ret = FALSE

\* C9: once CreateFileA failed at process attach, gPipe is NULL and no write
\* to the pipe was attempted, in every later state.
C9_NoPipeNoWrites ==
    dll.attach = "failed" => (gPipe = NULL /\ os.writes = << >>)

\* the attach failed, both threads made heap calls and the process detached
C9_Witness ==
    /\ dll.attach = "failed"
    /\ dll.detached
    /\ \A t \in Threads : th[t].returned
    /\ gPipe = NULL
    /\ os.writes = << >>

\* AddHook failed for export e (its pointer was never set) and succeeded for the other
PartialInstall(e) ==
    /\ dll.attach = "ok"
    /\ gNtdllIntercept.hooked = Exports \ {e}
    /\ (IF e = "RtlAllocateHeap" THEN gRtlAllocateHeapOrig ELSE gRtlFreeHeapOrig) = NullFn

\* C10: no hook invocation calls through a pointer that was never set; and
\* when AddHook failed for one export and succeeded for the other, a call of
\* the failed export runs ntdll's own function, once, with the caller's
\* arguments, and the caller gets its result.
C10_FailedHookStillCallsReal ==
    /\ \A t \in Threads : th[t].pc # "crashed"
    /\ \A e \in Exports :
          PartialInstall(e) =>
              \A t \in Threads :
                  (th[t].op = e /\ th[t].pc = "idle") =>
                      /\ ~th[t].hooked
                      /\ th[t].orig = << [fn |-> e, args |-> th[t].args, ret |-> th[t].ret] >>

\* RtlAllocateHeap could not be hooked, RtlFreeHeap was: a thread whose
\* hooked free returned then called RtlAllocateHeap and got a block
C10_Witness ==
    /\ PartialInstall("RtlAllocateHeap")
    /\ \E t \in Threads :
          /\ th[t].log = <<FreeDataMsgId>>
          /\ th[t].op = "RtlAllocateHeap"
          /\ th[t].returned
          /\ ~th[t].hooked
          /\ th[t].ret = U32(0, 4096)

-----------------------------------------------------------------------------
(* What DllMain reports to the loader *)

\* the greeting's WriteFile failed or wrote fewer bytes than asked
GreetingNotSent == Len(os.writes) > 0 /\ (~os.writes[1].ok \/ os.writes[1].size # os.writes[1].len)

\* C11 as stated: whatever failed inside (the connect, the greeting's write,
\* a hook's installation), the last DllMain call that returned reported
\* success, as it does when nothing fails.
C11_EveryHandlerReportsSuccess == dll.ret = TRUE

\* C11: a DllMain call reports failure exactly when it is the process attach
\* whose TryOpenPipe could not open the pipe; a failed greeting write and a
\* failed AddHook leave every handler's result TRUE.
C11_OnlyFailedConnectIsReported ==
    /\ dll.ret = FALSE <=> (dll.reason = "DLL_PROCESS_ATTACH" /\ dll.attach = "failed")
    /\ dll.attach = "failed" => gPipe = NULL /\ os.opens = 0
    /\ (dll.attach = "ok" /\ (GreetingNotSent \/ gNtdllIntercept.hooked # Exports)) => dll.ret = TRUE

\* process attach returned TRUE although the greeting was not written and no
\* hook could be installed
C11_Witness ==
    /\ dll.pc = "idle"
    /\ dll.attach = "ok"
    /\ dll.reason = "DLL_PROCESS_ATTACH"
    /\ dll.ret = TRUE
    /\ GreetingNotSent
    /\ gNtdllIntercept.hooked = {}

-----------------------------------------------------------------------------
(* SpecPipe: the pipe's functions called in any order.  TryOpenPipe is called *)
(* once, by ProcessAttach; ClosePipe and WriteToPipe are called any number of *)
(* times, before and after it, one call at a time.                            *)

MaxPipeCloses == 3
MaxPipeWrites == 2

\* the strings WriteToPipe is called with: "hello, sailor" and "m"
PipeStrings == { Greeting, <<109>> }

\* who calls the pipe's functions in SpecPipe
Caller == "caller"

\* ClosePipe() is called; had records whether gPipe held a handle then
CallClosePipe ==
    /\ dll.pc = "idle"
    /\ pipeCalls.closes < MaxPipeCloses
    /\ pipeCalls' = [pipeCalls EXCEPT !.closes = @ + 1, !.had = Append(@, gPipe # NULL)]
    /\ dll' = [dll EXCEPT !.pc = "ClosePipe"]
    /\ UNCHANGED <<gModule, gPipe, gRtlAllocateHeapOrig, gRtlFreeHeapOrig, gNtdllIntercept,
                   os, th, calls>>
    /\ UNCHANGED <<codecVars, fz>>

\* WriteToPipe(s) is called and returns; last records the call
CallWriteToPipe ==
    /\ dll.pc = "idle"
    /\ pipeCalls.writes < MaxPipeWrites
    /\ \E s \in PipeStrings : \E outcome \in WriteFileOutcomes(Len(s)) :
          LET r == WriteToPipe(s, Caller, outcome, gPipe, os)
              attempted == Len(r.os.writes) > Len(os.writes)
          IN  /\ os' = r.os
              /\ gPipe' = gPipe
              /\ pipeCalls' = [pipeCalls EXCEPT
                     !.writes = @ + 1,
                     !.last = [called |-> TRUE, pipe |-> gPipe, pipeAfter |-> gPipe', len |-> Len(s),
                               attempts |-> Len(r.os.writes) - Len(os.writes),
                               ok |-> attempted /\ outcome.ok,
                               size |-> IF attempted THEN outcome.size ELSE 0,
                               ret |-> r.ret]]
    /\ UNCHANGED <<gModule, gRtlAllocateHeapOrig, gRtlFreeHeapOrig, gNtdllIntercept, dll, th, calls>>
    /\ UNCHANGED <<codecVars, fz>>

PipeInit == SysInit /\ CodecOff /\ UnitsOff

PipeNext ==
    \/ DllMain_ProcessAttach
    \/ TryOpenPipe_CreateFile
    \/ TryOpenPipe_Check
    \/ InstallHooks_Init
    \/ InstallHooks_AddAllocHook
    \/ InstallHooks_AddFreeHook
    \/ CallClosePipe
    \/ ClosePipe_CloseHandle
    \/ ClosePipe_SetNull
    \/ CallWriteToPipe

SpecPipe == PipeInit /\ [][PipeNext]_vars

\* C12: ClosePipe may be called in any state (before TryOpenPipe, after a
\* TryOpenPipe that failed, again after an earlier ClosePipe): over all calls
\* CloseHandle is called at most once, only by a call that found a handle in
\* gPipe and only on a handle that is open, and when a call of ClosePipe
\* returns gPipe is NULL and no handle is open.
C12_CloseIsIdempotent ==
    /\ [](os.closes <= 1 /\ os.closes <= os.opens)
    /\ [][os'.closes # os.closes =>
            /\ gPipe \in os.open
            /\ os'.open = {}
            /\ pipeCalls.had[Len(pipeCalls.had)]]_vars
    /\ [][(dll.pc = "ClosePipe_null" /\ dll'.pc = "idle") =>
            gPipe' = NULL /\ os'.open = {}]_vars

\* ClosePipe was called before TryOpenPipe, then after it with the handle in
\* gPipe, then once more: one CloseHandle in all, and gPipe is NULL
C12_Witness ==
    /\ dll.pc = "idle"
    /\ dll.attach = "ok"
    /\ pipeCalls.had = <<FALSE, TRUE, FALSE>>
    /\ os.opens = 1
    /\ os.closes = 1
    /\ gPipe = NULL

-----------------------------------------------------------------------------
(* The order of the writes and of the steps of ProcessAttach, under Spec *)

\* C13: once CreateFileA has returned a handle, the next step of the loader
\* writes the greeting; the first write attempted on the pipe is that
\* greeting, made by the loader on the open handle, and it has been attempted
\* before InstallHooks starts, before any export is redirected and before any
\* hook runs.
C13_GreetingIsFirstWrite ==
    /\ Len(os.writes) > 0 =>
          /\ os.writes[1].bytes = Greeting
          /\ os.writes[1].by = Loader
          /\ os.writes[1].live
    /\ (os.opens > 0 /\ Len(os.writes) = 0) => dll.pc = "TryOpenPipe_check"
    /\ (dll.ranInstallHooks \/ dll.pc = "InstallHooks") => Len(os.writes) > 0
    /\ gNtdllIntercept.hooked # {} => Len(os.writes) > 0
    /\ \A t \in Threads : th[t].hooked => Len(os.writes) > 0

\* both hooks are installed and a hooked call has returned; the pipe's only
\* write so far is the greeting
C13_Witness ==
    /\ dll.attach = "ok"
    /\ gNtdllIntercept.hooked = Exports
    /\ \E t \in Threads : th[t].hooked /\ th[t].returned
    /\ Len(os.writes) = 1
    /\ os.writes[1].bytes = Greeting
    /\ os.writes[1].ok /\ os.writes[1].size = Len(Greeting)

\* C14 as stated: whenever an export is redirected and gPipe is not NULL, both
\* original pointers are set.
C14_BothSlotsSetWhenHooksSeePipe ==
    (gNtdllIntercept.hooked # {} /\ gPipe # NULL) =>
        (gRtlAllocateHeapOrig # NullFn /\ gRtlFreeHeapOrig # NullFn)

\* C14: whenever an export is redirected, the original pointer of that export
\* is set, and no hook is left with a null pointer to call; the other
\* export's pointer may still be unset while gPipe holds the handle.
C14_HookedExportHasItsSlot ==
    /\ "RtlAllocateHeap" \in gNtdllIntercept.hooked => gRtlAllocateHeapOrig = "RtlAllocateHeap"
    /\ "RtlFreeHeap" \in gNtdllIntercept.hooked => gRtlFreeHeapOrig = "RtlFreeHeap"
    /\ \A t \in Threads : th[t].pc # "crashed"

\* between the two AddHook calls: RtlAllocateHeap is redirected, gPipe holds
\* the handle, gRtlFreeHeapOrig is not set yet, and a thread has been through
\* RtlAllocateHeapHook
C14_Witness ==
    /\ dll.pc = "AddHook_RtlFreeHeap"
    /\ gNtdllIntercept.hooked = {"RtlAllocateHeap"}
    /\ gPipe \in os.open
    /\ gRtlAllocateHeapOrig = "RtlAllocateHeap"
    /\ gRtlFreeHeapOrig = NullFn
    /\ \E t \in Threads : th[t].hooked /\ th[t].returned /\ th[t].op = "RtlAllocateHeap"

\* C15 as stated: once process attach has returned, InstallHooks has run,
\* whether TryOpenPipe succeeded or failed.
C15_HooksInstalledUnconditionally ==
    dll.attach \in {"ok", "failed"} => dll.ranInstallHooks

\* C15: InstallHooks runs exactly when TryOpenPipe succeeded.  After a failed
\* TryOpenPipe it never runs: no export is redirected and both original
\* pointers stay NULL; the greeting and InstallHooks both depend on the
\* connection.
C15_HooksOnlyAfterConnect ==
    /\ dll.attach = "failed" =>
          /\ ~dll.ranInstallHooks
          /\ gNtdllIntercept = [module |-> FALSE, hooked |-> {}]
          /\ gRtlAllocateHeapOrig = NullFn /\ gRtlFreeHeapOrig = NullFn
          /\ \A t \in Threads : ~th[t].hooked
    /\ dll.attach = "ok" => (dll.ranInstallHooks /\ os.opens = 1 /\ Len(os.writes) = 1)
    /\ dll.ranInstallHooks => os.opens = 1

\* process attach returned FALSE without InstallHooks having run, and a
\* thread's heap call went straight to ntdll's own function
C15_Witness ==
    /\ dll.pc = "idle"
    /\ dll.attach = "failed"
    /\ dll.reason = "DLL_PROCESS_ATTACH"
    /\ ~dll.ranInstallHooks
    /\ gNtdllIntercept.hooked = {}
    /\ \E t \in Threads : th[t].returned /\ ~th[t].hooked /\ Len(th[t].orig) = 1

\* C16: at most one pipe handle is open at any time (handles opened less
\* handles closed is 0 or 1), and a handle that is open is the one gPipe
\* holds: none is overwritten in gPipe or dropped from it while still open.
C16_AtMostOneHandle ==
    /\ Cardinality(os.open) <= 1
    /\ os.opens - os.closes = Cardinality(os.open)
    /\ os.open \subseteq {gPipe}

\* the pipe was opened at attach, hooked heap calls and a thread notification
\* went by, and process detach closed the one handle
C16_Witness ==
    /\ dll.detached
    /\ dll.pc = "idle"
    /\ os.opens = 1
    /\ os.closes = 1
    /\ os.open = {}
    /\ gPipe = NULL
    /\ \E t \in Threads : th[t].hooked /\ th[t].returned

\* C17: a call of WriteToPipe calls WriteFile at most once: not at all, and
\* returns false, when gPipe is NULL; once when gPipe holds a handle, and
\* then returns true exactly when WriteFile succeeded and wrote as many bytes
\* as asked; gPipe is the same after the call as before.
C17_SendWritesAtMostOnce ==
    /\ Len(os.writes) <= pipeCalls.writes + os.opens
    /\ pipeCalls.last.called =>
          LET c == pipeCalls.last
          IN  /\ c.attempts <= 1
              /\ c.pipe = NULL => (c.attempts = 0 /\ ~c.ret)
              /\ c.pipe # NULL => c.attempts = 1
              /\ c.ret <=> (c.attempts = 1 /\ c.ok /\ c.size = c.len)
              /\ c.pipeAfter = c.pipe

\* WriteToPipe was called with the handle in gPipe, WriteFile wrote one byte
\* fewer than asked, and the call returned false after that one attempt
C17_Witness ==
    /\ pipeCalls.last.called
    /\ pipeCalls.last.pipe \in PipeHandles
    /\ pipeCalls.last.attempts = 1
    /\ pipeCalls.last.ok
    /\ pipeCalls.last.size = pipeCalls.last.len - 1
    /\ ~pipeCalls.last.ret
    /\ gPipe = pipeCalls.last.pipe

\* a step in which DllMain ran for DLL_THREAD_ATTACH or DLL_THREAD_DETACH:
\* the loader is outside DllMain before and after, the last reason is a
\* thread notification, and no thread of the program moved
ThreadNotification ==
    /\ dll.pc = "idle" /\ dll'.pc = "idle"
    /\ dll'.reason \in {"DLL_THREAD_ATTACH", "DLL_THREAD_DETACH"}
    /\ calls' = calls
    /\ \A t \in Threads : th'[t].pc = th[t].pc

\* C18: a DllMain call for DLL_THREAD_ATTACH or DLL_THREAD_DETACH leaves
\* gPipe, the interceptor's redirections, both original pointers and the
\* pipe (no handle opened or closed, no write attempted) as they were, and
\* returns TRUE.
C18_ThreadEventsAreNoOps ==
    [][ThreadNotification =>
          /\ gPipe' = gPipe
          /\ gNtdllIntercept' = gNtdllIntercept
          /\ gRtlAllocateHeapOrig' = gRtlAllocateHeapOrig
          /\ gRtlFreeHeapOrig' = gRtlFreeHeapOrig
          /\ os' = os
          /\ dll'.ret = TRUE
          /\ dll'.pc = "idle"]_vars

\* a thread detach notification has just returned TRUE with the pipe open,
\* both hooks installed and the greeting the only write
C18_Witness ==
    /\ dll.pc = "idle"
    /\ dll.reason = "DLL_THREAD_DETACH"
    /\ dll.ret = TRUE
    /\ dll.attach = "ok"
    /\ gPipe \in os.open
    /\ gNtdllIntercept.hooked = Exports
    /\ gRtlAllocateHeapOrig # NullFn /\ gRtlFreeHeapOrig # NullFn
    /\ Len(os.writes) = 1

\* process detach is running ClosePipe or has returned
Detaching == dll.pc \in {"ClosePipe", "ClosePipe_null"} \/ dll.detached

\* C19: once process detach has returned, gPipe is NULL and no handle is open
\* in every later state; from the start of ClosePipe on no write is attempted
\* and no write was ever made on a handle already closed; a hook that runs
\* during or after the detach still calls the original once, with its
\* caller's arguments, and returns what the original returned.
C19_AfterDetachNoPipeUse ==
    /\ [](dll.detached => (gPipe = NULL /\ os.open = {}))
    /\ [](\A i \in 1..Len(os.writes) : os.writes[i].live)
    /\ [][Detaching =>
            /\ os'.writes = os.writes
            /\ \A t \in Threads :
                  /\ th'[t].pc # "crashed"
                  /\ (th[t].hooked /\ th[t].pc = "orig" /\ th'[t].pc # "orig") =>
                        /\ Len(th'[t].orig) = 1
                        /\ th'[t].orig[1].fn = th[t].op
                        /\ th'[t].orig[1].args = th[t].args
                  /\ (th[t].hooked /\ th[t].pc = "return" /\ th'[t].pc # "return") =>
                        /\ th'[t].returned
                        /\ th'[t].ret = th[t].orig[1].ret]_vars

\* process detach returned, heap calls were begun after that, and every
\* thread's last call was hooked and has returned what the original returned;
\* the greeting is still the pipe's only write
C19_Witness ==
    /\ dll.detached
    /\ dll.pc = "idle"
    /\ calls > dll.callsAtDetach
    /\ gPipe = NULL
    /\ os.closes = 1
    /\ Len(os.writes) = 1
    /\ \A t \in Threads : th[t].hooked /\ th[t].returned /\ th[t].ret = th[t].orig[1].ret

-----------------------------------------------------------------------------
(* SpecStream: mupdf's stream module (stream-open.c).  One stream is opened  *)
(* with fz_open_fd or fz_open_buffer; its owners call fz_keep_stream and     *)
(* fz_close, each owner closing the reference it holds once.  An allocation  *)
(* (fz_malloc_struct) either succeeds or throws.                             *)

MaxKeeps == 4

\* the descriptors fz_open_fd is called with
Fds == {3, 4, 5}

\* the references on the fz_buffer when fz_open_buffer is called
BufferRefs == {1, 2, 3}

\* close_file(ctx, state): close(*(int*)state); fz_free(ctx, state)
close_file(f) ==
    [f EXCEPT !.fdCloses = @ + 1, !.stateFrees = @ + 1, !.state = FALSE]

\* close_buffer(ctx, state): if (state) fz_drop_buffer(ctx, state)
close_buffer(f) ==
    IF f.state
    THEN [f EXCEPT !.bufRefs = @ - 1, !.stateFrees = @ + 1, !.state = FALSE]
    ELSE f

\* the close callback the stream was created with
CloseCallback(f) ==
    [(IF f.kind = "fd" THEN close_file(f) ELSE close_buffer(f)) EXCEPT !.closeCalls = @ + 1]

StreamInit ==
    /\ \/ \E fd \in Fds : fz = [NoStream EXCEPT !.pc = "fz_open_fd", !.kind = "fd", !.fd = fd]
       \/ \E r \in BufferRefs :
             fz = [NoStream EXCEPT !.pc = "fz_open_buffer", !.kind = "buffer", !.bufRefs = r]
    /\ pipeCalls = NoPipeCalls
    /\ SysInit
    /\ CodecOff

\* fz_open_fd: state = fz_malloc_struct(ctx, int); *state = fd
fz_open_fd_AllocState ==
    /\ fz.pc = "fz_open_fd"
    /\ \E allocated \in BOOLEAN :
          fz' = IF allocated
                THEN [fz EXCEPT !.pc = "fz_new_stream", !.state = TRUE]
                ELSE [fz EXCEPT !.pc = "thrown"]
    /\ UNCHANGED <<codecVars, sysVars, pipeCalls>>

\* fz_open_buffer: fz_keep_buffer(ctx, buf)
fz_open_buffer_Keep ==
    /\ fz.pc = "fz_open_buffer"
    /\ fz' = [fz EXCEPT !.pc = "fz_new_stream", !.bufRefs = @ + 1, !.state = TRUE]
    /\ UNCHANGED <<codecVars, sysVars, pipeCalls>>

\* fz_new_stream: stm = fz_malloc_struct(ctx, fz_stream) succeeds, refs = 1,
\* and fz_open_* returns the stream; or it throws, the catch calls
\* close(ctx, state) and rethrows: into fz_open_fd's catch, or out of
\* fz_open_buffer
fz_new_stream ==
    /\ fz.pc = "fz_new_stream"
    /\ \E allocated \in BOOLEAN :
          fz' = IF allocated
                THEN [fz EXCEPT !.pc = "open", !.stm = "live", !.refs = 1]
                ELSE [CloseCallback(fz) EXCEPT
                         !.pc = IF fz.kind = "fd" THEN "fz_open_fd_catch" ELSE "thrown"]
    /\ UNCHANGED <<codecVars, sysVars, pipeCalls>>

\* fz_open_fd's fz_catch: fz_free(ctx, state); fz_rethrow(ctx).  state was
\* already freed by close_file: after this second free the program either
\* goes on with the rethrow or crashes
fz_open_fd_Catch ==
    /\ fz.pc = "fz_open_fd_catch"
    /\ \E after \in {"thrown", "crashed"} :
          fz' = [fz EXCEPT !.pc = after, !.stateFrees = @ + 1]
    /\ UNCHANGED <<codecVars, sysVars, pipeCalls>>

\* fz_keep_stream(stm): if (stm) stm->refs++
fz_keep_stream ==
    /\ fz.pc = "open"
    /\ fz.stm = "live"
    /\ fz.keeps < MaxKeeps
    /\ fz' = [fz EXCEPT !.refs = @ + 1, !.keeps = @ + 1]
    /\ UNCHANGED <<codecVars, sysVars, pipeCalls>>

\* fz_close(stm), called by an owner that still holds a reference: refs--,
\* and at 0 the close callback runs and the stream is freed
fz_close ==
    /\ fz.pc = "open"
    /\ fz.stm = "live"
    /\ fz.closes < fz.keeps + 1
    /\ LET f == [fz EXCEPT !.refs = @ - 1, !.closes = @ + 1]
       IN  fz' = IF f.refs = 0
                 THEN [CloseCallback(f) EXCEPT !.stm = "freed"]
                 ELSE f
    /\ UNCHANGED <<codecVars, sysVars, pipeCalls>>

StreamNext ==
    \/ fz_open_fd_AllocState
    \/ fz_open_buffer_Keep
    \/ fz_new_stream
    \/ fz_open_fd_Catch
    \/ fz_keep_stream
    \/ fz_close

SpecStream == StreamInit /\ [][StreamNext]_vars

\* C20 as stated: the state object passed to a stream is released exactly
\* once on every path.  It is never released twice; when fz_new_stream failed
\* to allocate and the exception has left fz_open_fd, the descriptor was
\* closed once and the state freed once; for a stream that was created, the
\* close callback has run once if its k keeps were followed by k + 1 calls of
\* fz_close, and not at all before that.
C20_StateReleasedExactlyOnce ==
    /\ fz.stateFrees <= 1
    /\ fz.fdCloses <= 1
    /\ (fz.pc \in {"thrown", "crashed"} /\ fz.closeCalls > 0) =>
          (fz.stateFrees = 1 /\ (fz.kind = "fd" => fz.fdCloses = 1))
    /\ fz.pc = "open" =>
          /\ fz.closeCalls = (IF fz.closes = fz.keeps + 1 THEN 1 ELSE 0)
          /\ fz.stateFrees = fz.closeCalls
          /\ (fz.stm = "freed") <=> (fz.closes = fz.keeps + 1)

====
